---- MODULE Spec2Model ----
(***************************************************************************)
(* Model of the App component of the On-Model Assistant (src/types.ts).    *)
(*                                                                         *)
(* The state is the component's React state (useState cells), plus the     *)
(* asynchronous work the handlers leave behind: file reads that have not   *)
(* yet fired img.onload, and calls of correctArt that have not yet         *)
(* settled.  A call in flight keeps the values its closure captured when   *)
(* the handler ran (originalImage, settings), as the code after the await  *)
(* reads those and not the current state.                                  *)
(*                                                                         *)
(* Spec models the application as the user can drive it: an event reaches  *)
(* a handler only when the element that carries it is rendered and not     *)
(* disabled.  HandlerSpec invokes handleRunCorrection and                  *)
(* handlePromoteToSource directly, whatever the markup renders, so that    *)
(* the branches of those handlers that the markup shields are exercised.   *)
(* HistorySpec is Spec with one image and a long run budget, so that the   *)
(* history grows past its cap.  FullSpec adds the settings controls and    *)
(* the callbacks of the reference library to the events of Spec.           *)
(* LibrarySpec starts from a stored catalog as well as from the seed       *)
(* packs and has the events that feed the retrieval of references.         *)
(* StartupSpec starts from everything localStorage can hold under the      *)
(* three keys and runs one correction.  DisplaySpec has the events that    *)
(* change the source and the result image.  PersistSpec has the events     *)
(* that commit a catalog, settings or a selection, with a localStorage     *)
(* whose setItem can start to throw.                                       *)
(*                                                                         *)
(* correctArt and retrieveSimilarReferences are imported from              *)
(* ./services/gemini; what they compute (the metrics of a result, the      *)
(* ranked references) follows sections 4.2 and 4.3 of the specification.   *)
(***************************************************************************)
EXTENDS Integers, Sequences, FiniteSets, TLC

VARIABLES
    activeTab,       \* 'Editor' | 'Library'
    originalImage,   \* string | null
    correctedImage,  \* string | null
    isProcessing,    \* boolean
    errorMsg,        \* string | null
    viewMode,        \* ViewMode
    history,         \* EditSession[]
    settings,        \* CorrectionSettings
    loading,         \* files chosen whose img.onload has not fired yet
    inflight,        \* calls of correctArt that have not settled, in issue order
    now,             \* Date.now()
    packs,           \* ReferencePack[]
    selectedPackIds, \* string[]
    retrievedRefs,   \* ReferenceImage[]
    boot,            \* what localStorage gave when the component was built
    changes,         \* number of changes made so far to the settings, the
                     \* catalog and the selection of packs
    stored,          \* what the last write to localStorage left under the
                     \* three keys
    storageThrows,   \* whether a call of localStorage.setItem throws
    mounted,         \* whether the component is still mounted
    appended,        \* every session appended since the history was last emptied
    lastEvent        \* the handler branch that ran last

vars == <<activeTab, originalImage, correctedImage, isProcessing, errorMsg,
          viewMode, history, settings, loading, inflight, now, packs,
          selectedPackIds, retrievedRefs, boot, changes, stored,
          storageThrows, mounted, appended, lastEvent>>

\* The catalog and the selection of packs, and the counts that bound a run
\* of the model.
catalogState == <<packs, selectedPackIds>>
budgets == <<boot, changes>>

\* localStorage and the life of the component.
persistence == <<stored, storageThrows, mounted>>

(***************************************************************************)
(* Bounds of the model.                                                    *)
(***************************************************************************)
MaxRuns == 2        \* sessions made in Spec and HandlerSpec
MaxAppends == 22    \* sessions made in HistorySpec
MaxPending == 2     \* calls of correctArt in flight at once
MaxFullRuns == 1    \* sessions made in FullSpec and StartupSpec
MaxChanges == 1     \* changes to the settings, the catalog and the selection

(***************************************************************************)
(* Values.                                                                 *)
(***************************************************************************)
Null == "null"

HistoryCap == 20

Uploads == {"sketchA", "sketchB"}
Results == {"resultX"}

ViewModes == {"Before", "After", "Overlay"}

CorrectionModes == {"Proportion (Mode A)", "Conditioned (Mode B)"}
AngleTags == {"Front", "3/4 View", "Profile", "Upshot", "Downshot", "Generic"}
AutoCorrectionScopes ==
    {"Full Image", "Face Priority", "Clothing Priority", "Hands Priority"}
Tabs == {"Editor", "Library"}

NoImageMsg == "Upload an image first."
InterruptedMsg == "Refinement process interrupted."
ProviderMsg == "Quota exceeded."

\* What correctArt can throw: a CorrectionFailedError with its message, or
\* anything else.
ProviderErrors ==
    { [kind |-> "CorrectionFailedError", message |-> ProviderMsg],
      [kind |-> "Error", message |-> "fetch failed"] }

\* The raw metrics of the provider; the fractions are in thousandths.
RawMetrics ==
    { [mask_coverage |-> 250, denoise_used |-> 500, diff_in_mask |-> 40,
       diff_outside_mask |-> 2],
      [mask_coverage |-> 600, denoise_used |-> 800, diff_in_mask |-> 90,
       diff_outside_mask |-> 10] }

\* Raw metrics on either side of the tolerance.
RawMetricsAtTolerance ==
    { [mask_coverage |-> 300, denoise_used |-> 500, diff_in_mask |-> 50,
       diff_outside_mask |-> 4],
      [mask_coverage |-> 300, denoise_used |-> 500, diff_in_mask |-> 50,
       diff_outside_mask |-> 5] }

\* The tolerance on diff_outside_mask, 0.004.
FidelityTolerance == 4

DefaultSettings ==
    [strength |-> 50,
     linePreservation |-> 85,
     mode |-> "Proportion (Mode A)",
     angleTag |-> "3/4 View",
     scope |-> "Full Image",
     absoluteLineFidelity |-> TRUE]

\* What reading a key of localStorage at startup can give: no record, a
\* getItem that throws, text that JSON.parse rejects (it throws), or a parsed
\* value.
ReadKinds == {"missing", "unreadable", "corrupt", "parsed"}

\* Under 'art_settings_v6', at a usual startup: nothing, or the settings of an
\* earlier visit.
StoredSettings ==
    { [read |-> "missing", value |-> DefaultSettings],
      [read |-> "parsed",
       value |-> [strength |-> 75,
                  linePreservation |-> 60,
                  mode |-> "Conditioned (Mode B)",
                  angleTag |-> "Front",
                  scope |-> "Face Priority",
                  absoluteLineFidelity |-> FALSE]] }

\* Under 'art_settings_v6', at any startup: also a record that cannot be read
\* or parsed, one written by a version with fewer fields, and one with values
\* out of range.
AnyStoredSettings ==
    StoredSettings \cup
    { [read |-> "unreadable", value |-> DefaultSettings],
      [read |-> "corrupt", value |-> DefaultSettings],
      [read |-> "parsed",
       value |-> [strength |-> 75, angleTag |-> "Profile"]],
      [read |-> "parsed",
       value |-> [strength |-> 150,
                  linePreservation |-> -5,
                  mode |-> "Bogus",
                  angleTag |-> "Front",
                  scope |-> "Full Image",
                  absoluteLineFidelity |-> TRUE]] }

\* The useState initialiser of settings.
LoadSettings(saved) ==
    IF saved.read = "parsed" THEN saved.value ELSE DefaultSettings

\* s.f of a settings object, undefined for a field it lacks.
Undefined == "undefined"
Field(s, f) == IF f \in DOMAIN s THEN s[f] ELSE Undefined

\* Whether the flag s.f is set: an absent one is not.
Flag(s, f) == f \in DOMAIN s /\ s[f]

\* A fidelity flag that reports what was requested, whatever was achieved.
EvaluateMetricsAsRequested(raw, stg) ==
    [mask_coverage |-> raw.mask_coverage,
     denoise_used |-> raw.denoise_used,
     diff_in_mask |-> raw.diff_in_mask,
     diff_outside_mask |-> raw.diff_outside_mask,
     absolute_line_fidelity |-> Flag(stg, "absoluteLineFidelity")]

\* The metrics correctArt returns for the raw metrics of the provider and the
\* settings of the call: the numbers as they are, and whether line fidelity
\* was requested and achieved.
EvaluateMetrics(raw, stg) ==
    [mask_coverage |-> raw.mask_coverage,
     denoise_used |-> raw.denoise_used,
     diff_in_mask |-> raw.diff_in_mask,
     diff_outside_mask |-> raw.diff_outside_mask,
     absolute_line_fidelity |->
        /\ Flag(stg, "absoluteLineFidelity")
        /\ raw.diff_outside_mask <= FidelityTolerance]

\* Every metrics record correctArt can return.
ReturnedMetrics ==
    { EvaluateMetrics(raw, [absoluteLineFidelity |-> requested]) :
         raw \in RawMetrics \cup RawMetricsAtTolerance,
         requested \in BOOLEAN }

\* The two packs a first visit starts with.
SeedPacks(time) ==
    << [id |-> "1", name |-> "Standard Anime Eyes",
        description |-> "Clean eye references.", images |-> <<>>,
        createdAt |-> time],
       [id |-> "2", name |-> "Profile Jawlines",
        description |-> "Sharp chin silhouttes.", images |-> <<>>,
        createdAt |-> time] >>

\* Under 'art_packs': nothing, a record that cannot be read or parsed, or a
\* catalog of one pack with one image.
StoredPacks ==
    { [read |-> kind, value |-> <<>>] :
         kind \in {"missing", "unreadable", "corrupt"} } \cup
    { [read |-> "parsed",
       value |-> << [id |-> "7", name |-> "Heads",
                     description |-> "Head turnarounds.",
                     images |-> << [id |-> "i1", packId |-> "7",
                                    data |-> "refProfile",
                                    tags |-> {"Profile"}] >>,
                     createdAt |-> 0] >>] }

\* Under 'art_selected_packs': nothing, a record that cannot be read or
\* parsed, or the ids of the packs that were enabled.
StoredSelections ==
    { [read |-> kind, value |-> <<>>] :
         kind \in {"missing", "unreadable", "corrupt"} } \cup
    { [read |-> "parsed", value |-> <<"7">>] }

\* An initialiser of packs that falls back to an empty catalog.
LoadPacksNoSeed(saved, time) ==
    IF saved.read = "parsed" THEN saved.value ELSE <<>>

\* The useState initialiser of packs.
LoadPacks(saved, time) ==
    IF saved.read = "parsed" THEN saved.value ELSE SeedPacks(time)

\* packs.map(p => p.id)
PackIds(pks) == [i \in 1..Len(pks) |-> pks[i].id]

\* The useState initialiser of selectedPackIds.
LoadSelectedPackIds(saved, pks) ==
    IF saved.read = "parsed" THEN saved.value ELSE PackIds(pks)

(***************************************************************************)
(* Helpers.                                                                *)
(***************************************************************************)
Min(a, b) == IF a < b THEN a ELSE b

\* slice(0, n + 1): a cap that is off by one.
Slice0KeepsOneMore(s, n) == SubSeq(s, 1, Min(n + 1, Len(s)))

\* Array.prototype.slice(0, n)
Slice0(s, n) == SubSeq(s, 1, Min(n, Len(s)))

RemoveAt(s, k) == SubSeq(s, 1, k - 1) \o SubSeq(s, k + 1, Len(s))

(***************************************************************************)
(* Retrieval of references (retrieveSimilarReferences of services/gemini).  *)
(***************************************************************************)
RankLimit == 8

\* Front/Generic, Upshot/Downshot and Profile/3-4 View are adjacent.
AdjacentTags(a, b) ==
    \/ {a, b} = {"Front", "Generic"}
    \/ {a, b} = {"Upshot", "Downshot"}
    \/ {a, b} = {"Profile", "3/4 View"}

\* The tag-match signal, in tenths.
TagMatch(tags, angleTag) ==
    IF angleTag \in tags THEN 10
    ELSE IF \E t \in tags : AdjacentTags(t, angleTag) THEN 5
    ELSE 0

\* The perceptual fingerprint of an image, a number from 0 to 10.
Fingerprint(data) ==
    CASE data = "sketchA" -> 2
      [] data = "sketchB" -> 7
      [] data = "resultX" -> 3
      [] data = "refProfile" -> 4
      [] data = "refFront" -> 8
      [] OTHER -> 0

\* The content-similarity signal, in tenths: symmetric.
ContentSimilarity(a, b) ==
    LET d == Fingerprint(a) - Fingerprint(b)
    IN  10 - (IF d < 0 THEN -d ELSE d)

\* The combined score, in hundredths: 0.6 tag match + 0.4 similarity.
Score(sourceImage, image, angleTag) ==
    6 * TagMatch(image.tags, angleTag)
       + 4 * ContentSimilarity(sourceImage, image.data)

\* The order of image ids that breaks ties.
ImageIds == <<"i1", "i2">>
IdRank(id) == CHOOSE i \in 1..Len(ImageIds) : ImageIds[i] = id

\* The images of the given packs, in catalog order.
RECURSIVE Candidates(_)
Candidates(pks) ==
    IF pks = <<>> THEN <<>>
    ELSE pks[1].images \o Candidates(Tail(pks))

\* r comes before q: a higher score, or the same score and a lower id.
RanksBefore(r, q) ==
    \/ r.similarity > q.similarity
    \/ r.similarity = q.similarity /\ IdRank(r.id) < IdRank(q.id)

\* Descending by score, ties by ascending id, equal ones in catalog order.
RECURSIVE SortRefs(_)
SortRefs(refs) ==
    IF refs = <<>> THEN <<>>
    ELSE LET best == CHOOSE i \in 1..Len(refs) :
                        /\ \A j \in 1..Len(refs) : ~RanksBefore(refs[j], refs[i])
                        /\ \A j \in 1..(i - 1) : RanksBefore(refs[i], refs[j])
         IN  <<refs[best]>> \o SortRefs(RemoveAt(refs, best))

\* retrieveSimilarReferences(originalImage, activePacks, angleTag)
RetrieveSimilarReferences(sourceImage, activePacks, angleTag) ==
    LET candidates == Candidates(activePacks)
        scored == [i \in 1..Len(candidates) |->
                     [id |-> candidates[i].id,
                      packId |-> candidates[i].packId,
                      data |-> candidates[i].data,
                      tags |-> candidates[i].tags,
                      similarity |-> Score(sourceImage, candidates[i],
                                           angleTag)]]
    IN  Slice0(SortRefs(scored), RankLimit)

\* packs.filter(p => selectedPackIds.includes(p.id))
ActivePacks(pks, selected) ==
    SelectSeq(pks, LAMBDA p : \E i \in 1..Len(selected) : selected[i] = p.id)

\* The effect on [originalImage, settings.angleTag, selectedPackIds, packs]:
\* what retrievedRefs holds once the effect has run for the given values,
\* having held cached before.
RetrievedRefsEffect(sourceImage, pks, selected, stg, cached) ==
    IF sourceImage # Null /\ Len(pks) > 0
    THEN RetrieveSimilarReferences(sourceImage, ActivePacks(pks, selected),
                                   Field(stg, "angleTag"))
    ELSE cached

\* What the effect on [packs, settings, selectedPackIds] writes.
Written(pks, stg, selected) == <<pks, stg, selected>>

\* The effect on [packs, settings, selectedPackIds], which runs after the
\* commit of a new value of one of them: three calls of localStorage.setItem.
\* One that throws is caught by nothing, and the component is unmounted.
PersistenceEffect ==
    IF storageThrows
    THEN /\ mounted' = FALSE
         /\ UNCHANGED stored
    ELSE /\ stored' = Written(packs', settings', selectedPackIds')
         /\ UNCHANGED mounted

(***************************************************************************)
(* Initial state.                                                          *)
(***************************************************************************)
\* What localStorage holds under the three keys before the first write.
NeverWritten == <<>>

\* The state once the component is built from what localStorage gives for
\* the three keys and the effects of the first render have run; throws
\* tells whether localStorage.setItem throws.
Boot(savedPacks, savedSelection, savedSettings, throws) ==
    /\ activeTab = "Editor"
    /\ originalImage = Null
    /\ correctedImage = Null
    /\ isProcessing = FALSE
    /\ errorMsg = Null
    /\ viewMode = "After"
    /\ history = <<>>
    /\ now = 0
    /\ packs = LoadPacks(savedPacks, 0)
    /\ retrievedRefs = <<>>
    /\ selectedPackIds =
          LoadSelectedPackIds(savedSelection, LoadPacks(savedPacks, 0))
    /\ settings = LoadSettings(savedSettings)
    /\ boot = [packs |-> savedPacks, selection |-> savedSelection,
               settings |-> savedSettings]
    /\ storageThrows = throws
    /\ mounted = ~throws
    /\ stored = IF throws
                THEN NeverWritten
                ELSE Written(LoadPacks(savedPacks, 0),
                             LoadSettings(savedSettings),
                             LoadSelectedPackIds(savedSelection,
                                                 LoadPacks(savedPacks, 0)))
    /\ loading = {}
    /\ inflight = <<>>
    /\ changes = 0
    /\ appended = <<>>
    /\ lastEvent = "init"

\* A startup with no catalog and no selection stored.
NothingStored == [read |-> "missing", value |-> <<>>]

Init ==
    \E saved \in StoredSettings :
       Boot(NothingStored, NothingStored, saved, FALSE)

(***************************************************************************)
(* Upload.                                                                 *)
(***************************************************************************)
\* handleFileUpload: the file input's onChange.  With a file chosen the read
\* starts; nothing changes until img.onload.
handleFileUpload(file) ==
    /\ activeTab = "Editor"
    /\ loading' = loading \cup {file}
    /\ lastEvent' = "upload:chosen"
    /\ UNCHANGED <<activeTab, originalImage, correctedImage, isProcessing,
                   errorMsg, viewMode, history, settings, inflight, now,
                   appended,
                        catalogState, budgets, persistence, retrievedRefs>>

\* img.onload of a file that was chosen.
ImgOnload(base64) ==
    /\ base64 \in loading
    /\ loading' = loading \ {base64}
    /\ originalImage' = base64
    /\ correctedImage' = Null
    /\ errorMsg' = Null
    /\ retrievedRefs' = RetrievedRefsEffect(originalImage', packs,
                                            selectedPackIds, settings,
                                            retrievedRefs)
    /\ lastEvent' = "upload:loaded"
    /\ UNCHANGED <<activeTab, isProcessing, viewMode, history, settings,
                   inflight, now, appended, catalogState, budgets,
                   persistence>>

(***************************************************************************)
(* Correction.                                                             *)
(***************************************************************************)
\* disabled={!originalImage}: a trigger that stays live during a call.
RunEnabledWhileProcessing ==
    /\ activeTab = "Editor"
    /\ originalImage # Null

\* The trigger button: disabled={isProcessing || !originalImage}, rendered in
\* the Editor tab.
RunEnabled ==
    /\ activeTab = "Editor"
    /\ ~isProcessing
    /\ originalImage # Null

\* handleRunCorrection without its first line: the call is issued whatever
\* originalImage holds.
handleRunCorrectionUnguarded(maxRuns) ==
    /\ now + Len(inflight) < maxRuns
    /\ Len(inflight) < MaxPending
    /\ errorMsg' = Null
    /\ isProcessing' = TRUE
    /\ inflight' = Append(inflight, [originalImage |-> originalImage,
                                     settings |-> settings,
                                     retrievedRefs |-> retrievedRefs])
    /\ lastEvent' = "run:issued"
    /\ UNCHANGED <<activeTab, originalImage, correctedImage, viewMode,
                   history, settings, loading, now, appended,
                        catalogState, budgets, persistence, retrievedRefs>>

\* handleRunCorrection up to the await.  maxRuns bounds the sessions a run
\* of the model makes: no call is issued that could make one more.
handleRunCorrection(maxRuns) ==
    IF originalImage = Null
    THEN /\ errorMsg' = NoImageMsg
         /\ lastEvent' = "run:noimage"
         /\ UNCHANGED <<activeTab, originalImage, correctedImage,
                        isProcessing, viewMode, history, settings, loading,
                        inflight, now, appended,
                        catalogState, budgets, persistence, retrievedRefs>>
    ELSE /\ now + Len(inflight) < maxRuns
         /\ Len(inflight) < MaxPending
         /\ errorMsg' = Null
         /\ isProcessing' = TRUE
         /\ inflight' = Append(inflight, [originalImage |-> originalImage,
                                          settings |-> settings,
                                          retrievedRefs |-> retrievedRefs])
         /\ lastEvent' = "run:issued"
         /\ UNCHANGED <<activeTab, originalImage, correctedImage, viewMode,
                        history, settings, loading, now, appended,
                        catalogState, budgets, persistence, retrievedRefs>>

\* A click on the trigger button.
RunClick(maxRuns) ==
    /\ RunEnabled
    /\ handleRunCorrection(maxRuns)

\* A session built from the state at the time of the reply, not from what
\* the call was issued with.
NewSessionFromState(call, resultImage, metrics, time) ==
    [id |-> time,
     originalImage |-> originalImage,
     resultImage |-> resultImage,
     settings |-> settings,
     timestamp |-> time,
     metrics |-> metrics]

\* The EditSession built after the await from the values the closure holds.
NewSession(call, resultImage, metrics, time) ==
    [id |-> time,
     originalImage |-> call.originalImage,
     resultImage |-> resultImage,
     settings |-> call.settings,
     timestamp |-> time,
     metrics |-> metrics]

\* correctArt resolves for the k-th call in flight: the rest of the try block
\* and the finally block.  Date.now() has moved on since it was last read,
\* a call of correctArt ago.
ProviderResolves(k, resultImage, metrics) ==
    /\ k \in 1..Len(inflight)
    /\ now' = now + 1
    /\ LET newSession == NewSession(inflight[k], resultImage, metrics, now')
       IN  /\ history' = Slice0(<<newSession>> \o history, HistoryCap)
           /\ appended' = Append(appended, newSession)
    /\ correctedImage' = resultImage
    /\ viewMode' = "After"
    /\ isProcessing' = FALSE
    /\ inflight' = RemoveAt(inflight, k)
    /\ lastEvent' = "run:resolved"
    /\ UNCHANGED <<activeTab, originalImage, errorMsg, settings, loading,
                        catalogState, budgets, persistence, retrievedRefs>>

\* correctArt resolves for the k-th call in flight, the provider having
\* given the image and the raw metrics.
CorrectArtResolves(k, resultImage, raw) ==
    /\ k \in 1..Len(inflight)
    /\ ProviderResolves(k, resultImage,
                        EvaluateMetrics(raw, inflight[k].settings))

\* The catch block with setIsProcessing(false) in the try block instead of a
\* finally block: a rejection leaves the flag set.
ProviderRejectsNoFinally(k, error) ==
    /\ k \in 1..Len(inflight)
    /\ errorMsg' = IF error.kind = "CorrectionFailedError"
                   THEN error.message
                   ELSE InterruptedMsg
    /\ inflight' = RemoveAt(inflight, k)
    /\ lastEvent' = "run:rejected"
    /\ UNCHANGED <<activeTab, originalImage, correctedImage, isProcessing,
                   viewMode, history, settings, loading, now, appended,
                        catalogState, budgets, persistence, retrievedRefs>>

\* A catch block that issues the call again.
ProviderRejectsAndRetries(k, error) ==
    /\ k \in 1..Len(inflight)
    /\ errorMsg' = IF error.kind = "CorrectionFailedError"
                   THEN error.message
                   ELSE InterruptedMsg
    /\ inflight' = Append(RemoveAt(inflight, k), inflight[k])
    /\ lastEvent' = "run:rejected"
    /\ UNCHANGED <<activeTab, originalImage, correctedImage, isProcessing,
                   viewMode, history, settings, loading, now, appended,
                   catalogState, budgets, persistence, retrievedRefs>>

\* correctArt rejects for the k-th call in flight: the catch block and the
\* finally block.
ProviderRejects(k, error) ==
    /\ k \in 1..Len(inflight)
    /\ errorMsg' = IF error.kind = "CorrectionFailedError"
                   THEN error.message
                   ELSE InterruptedMsg
    /\ isProcessing' = FALSE
    /\ inflight' = RemoveAt(inflight, k)
    /\ lastEvent' = "run:rejected"
    /\ UNCHANGED <<activeTab, originalImage, correctedImage, viewMode,
                   history, settings, loading, now, appended,
                        catalogState, budgets, persistence, retrievedRefs>>

(***************************************************************************)
(* Promote, view, history.                                                 *)
(***************************************************************************)
\* handlePromoteToSource without setCorrectedImage(null).
handlePromoteKeepsResult ==
    IF correctedImage # Null
    THEN /\ originalImage' = correctedImage
         /\ viewMode' = "Before"
         /\ errorMsg' = Null
         /\ retrievedRefs' = RetrievedRefsEffect(originalImage', packs,
                                                 selectedPackIds, settings,
                                                 retrievedRefs)
         /\ lastEvent' = "promote:done"
         /\ UNCHANGED <<activeTab, correctedImage, isProcessing, history,
                        settings, loading, inflight, now, appended,
                        catalogState, budgets,
                        persistence>>
    ELSE /\ lastEvent' = "promote:noresult"
         /\ UNCHANGED <<activeTab, originalImage, correctedImage,
                        isProcessing, errorMsg, viewMode, history, settings,
                        loading, inflight, now, appended,
                        catalogState, budgets, persistence, retrievedRefs>>

handlePromoteToSource ==
    IF correctedImage # Null
    THEN /\ originalImage' = correctedImage
         /\ correctedImage' = Null
         /\ viewMode' = "Before"
         /\ errorMsg' = Null
         /\ retrievedRefs' = RetrievedRefsEffect(originalImage', packs,
                                                 selectedPackIds, settings,
                                                 retrievedRefs)
         /\ lastEvent' = "promote:done"
         /\ UNCHANGED <<activeTab, isProcessing, history, settings, loading,
                        inflight, now, appended, catalogState, budgets,
                        persistence>>
    ELSE /\ lastEvent' = "promote:noresult"
         /\ UNCHANGED <<activeTab, originalImage, correctedImage,
                        isProcessing, errorMsg, viewMode, history, settings,
                        loading, inflight, now, appended,
                        catalogState, budgets, persistence, retrievedRefs>>

\* A click on "Use as New Source", rendered only with a result, in the Editor
\* tab.
PromoteClick ==
    /\ activeTab = "Editor"
    /\ correctedImage # Null
    /\ handlePromoteToSource

\* The view buttons: disabled={mode !== 'Before' && !correctedImage}
ViewButtonDisabled(mode) == mode # "Before" /\ correctedImage = Null

\* A click on a view button: a disabled button delivers no event.
ViewButtonClick(mode) ==
    /\ activeTab = "Editor"
    /\ IF ViewButtonDisabled(mode)
       THEN /\ lastEvent' = "view:disabled"
            /\ UNCHANGED viewMode
       ELSE /\ viewMode' = mode
            /\ lastEvent' = "view:set"
    /\ UNCHANGED <<activeTab, originalImage, correctedImage, isProcessing,
                   errorMsg, history, settings, loading, inflight, now,
                   appended,
                        catalogState, budgets, persistence, retrievedRefs>>

\* clearHistory without the test of window.confirm's answer.
clearHistoryWhateverAnswer(confirmed) ==
    /\ activeTab = "Editor"
    /\ history # <<>>
    /\ history' = <<>>
    /\ appended' = <<>>
    /\ lastEvent' = IF confirmed THEN "clear:confirmed" ELSE "clear:declined"
    /\ UNCHANGED <<activeTab, originalImage, correctedImage, isProcessing,
                   errorMsg, viewMode, settings, loading, inflight, now,
                   catalogState, budgets, persistence, retrievedRefs>>

\* clearHistory, behind the "Clear All" button, rendered with a non-empty
\* history; confirmed is the answer to window.confirm.
clearHistory(confirmed) ==
    /\ activeTab = "Editor"
    /\ history # <<>>
    /\ IF confirmed
       THEN /\ history' = <<>>
            /\ appended' = <<>>
            /\ lastEvent' = "clear:confirmed"
       ELSE /\ lastEvent' = "clear:declined"
            /\ UNCHANGED <<history, appended>>
    /\ UNCHANGED <<activeTab, originalImage, correctedImage, isProcessing,
                   errorMsg, viewMode, settings, loading, inflight, now,
                        catalogState, budgets, persistence, retrievedRefs>>

\* A replay that always shows the newest session.
ReplayNewestSession(i) ==
    /\ activeTab = "Editor"
    /\ i \in 1..Len(history)
    /\ correctedImage' = history[1].resultImage
    /\ originalImage' = history[1].originalImage
    /\ viewMode' = "After"
    /\ retrievedRefs' = RetrievedRefsEffect(originalImage', packs,
                                            selectedPackIds, settings,
                                            retrievedRefs)
    /\ lastEvent' = "replay"
    /\ UNCHANGED <<activeTab, isProcessing, errorMsg, history, settings,
                   loading, inflight, now, appended, catalogState, budgets,
                   persistence>>

\* A replay that takes the session out of the history.
ReplayTakesSession(i) ==
    /\ activeTab = "Editor"
    /\ i \in 1..Len(history)
    /\ correctedImage' = history[i].resultImage
    /\ originalImage' = history[i].originalImage
    /\ viewMode' = "After"
    /\ history' = RemoveAt(history, i)
    /\ retrievedRefs' = RetrievedRefsEffect(originalImage', packs,
                                            selectedPackIds, settings,
                                            retrievedRefs)
    /\ lastEvent' = "replay"
    /\ UNCHANGED <<activeTab, isProcessing, errorMsg, settings, loading,
                   inflight, now, appended, catalogState, budgets,
                   persistence>>

\* A click on the i-th entry of the history list.
ReplaySession(i) ==
    /\ activeTab = "Editor"
    /\ i \in 1..Len(history)
    /\ correctedImage' = history[i].resultImage
    /\ originalImage' = history[i].originalImage
    /\ viewMode' = "After"
    /\ retrievedRefs' = RetrievedRefsEffect(originalImage', packs,
                                            selectedPackIds, settings,
                                            retrievedRefs)
    /\ lastEvent' = "replay"
    /\ UNCHANGED <<activeTab, isProcessing, errorMsg, history, settings,
                   loading, inflight, now, appended, catalogState, budgets,
                   persistence>>

\* A click on a tab of the header.
SetActiveTab(tab) ==
    /\ activeTab' = tab
    /\ lastEvent' = "tab"
    /\ UNCHANGED <<originalImage, correctedImage, isProcessing, errorMsg,
                   viewMode, history, settings, loading, inflight, now,
                   appended,
                        catalogState, budgets, persistence, retrievedRefs>>

(***************************************************************************)
(* Settings edits.                                                         *)
(***************************************************************************)
ScopeInputs == {"Hands Priority"}
StrengthInputs == {100}
AngleInputs == {"Profile"}

\* {...settings, [field]: value}
WithField(stg, field, value) ==
    [f \in DOMAIN stg \cup {field} |-> IF f = field THEN value ELSE stg[f]]

\* settings[field] = value on the object itself: the sessions that hold that
\* object change with it.
EditSettingInPlace(field, value) ==
    /\ activeTab = "Editor"
    /\ mounted
    /\ changes < MaxChanges
    /\ changes' = changes + 1
    /\ settings' = WithField(settings, field, value)
    /\ history' = [i \in 1..Len(history) |->
                     IF history[i].settings = settings
                     THEN [history[i] EXCEPT !.settings = settings']
                     ELSE history[i]]
    /\ retrievedRefs' = RetrievedRefsEffect(originalImage, packs,
                                            selectedPackIds, settings',
                                            retrievedRefs)
    /\ lastEvent' = "edit"
    /\ UNCHANGED <<activeTab, originalImage, correctedImage, isProcessing,
                   errorMsg, viewMode, loading, inflight, now, appended,
                   catalogState, boot, storageThrows>>
    /\ PersistenceEffect

\* setSettings({...settings, [field]: value}) by one of the four controls of
\* the Editor tab, and the effect that follows a new angle tag.
EditSetting(field, value) ==
    /\ activeTab = "Editor"
    /\ mounted
    /\ changes < MaxChanges
    /\ changes' = changes + 1
    /\ settings' = WithField(settings, field, value)
    /\ retrievedRefs' = RetrievedRefsEffect(originalImage, packs,
                                            selectedPackIds, settings',
                                            retrievedRefs)
    /\ lastEvent' = "edit"
    /\ UNCHANGED <<activeTab, originalImage, correctedImage, isProcessing,
                   errorMsg, viewMode, history, loading, inflight, now,
                   appended, catalogState, boot, storageThrows>>
    /\ PersistenceEffect

SetScope(value) == EditSetting("scope", value)
SetStrength(value) == EditSetting("strength", value)
SetAbsoluteLineFidelity(checked) ==
    EditSetting("absoluteLineFidelity", checked)
SetAngleTag(value) == EditSetting("angleTag", value)

SettingsEdits ==
    \/ \E v \in ScopeInputs : SetScope(v)
    \/ \E v \in StrengthInputs : SetStrength(v)
    \/ \E checked \in BOOLEAN : SetAbsoluteLineFidelity(checked)
    \/ \E v \in AngleInputs : SetAngleTag(v)

(***************************************************************************)
(* The catalog and the selection of packs.                                 *)
(***************************************************************************)
\* What Math.random().toString(36).substr(7) gives for a pack and an image.
NewPackIds == {"p3"}
NewImageIds == {"i2"}
PackNames == {"Hands"}
ReferenceUploads == {"refFront"}

\* setPacks(next) by a callback of the Library tab, and the effect that
\* follows a new catalog.
SetPacks(next, event) ==
    /\ activeTab = "Library"
    /\ mounted
    /\ changes < MaxChanges
    /\ changes' = changes + 1
    /\ packs' = next
    /\ retrievedRefs' = RetrievedRefsEffect(originalImage, packs',
                                            selectedPackIds, settings,
                                            retrievedRefs)
    /\ lastEvent' = event
    /\ UNCHANGED <<activeTab, originalImage, correctedImage, isProcessing,
                   errorMsg, viewMode, history, settings, loading, inflight,
                   now, appended, selectedPackIds, boot, storageThrows>>
    /\ PersistenceEffect

onAddPack(n, d, id) ==
    SetPacks(Append(packs, [id |-> id, name |-> n, description |-> d,
                            images |-> <<>>, createdAt |-> now]),
             "pack:added")

onUpdatePack(id, n, d) ==
    SetPacks([i \in 1..Len(packs) |->
                 IF packs[i].id = id
                 THEN [packs[i] EXCEPT !.name = n, !.description = d]
                 ELSE packs[i]],
             "pack:updated")

onDeletePack(id) ==
    SetPacks(SelectSeq(packs, LAMBDA p : p.id # id), "pack:deleted")

\* One image uploaded to a pack.
onUploadToPack(id, data, imageId) ==
    SetPacks([i \in 1..Len(packs) |->
                 IF packs[i].id = id
                 THEN [packs[i] EXCEPT !.images =
                         Append(@, [id |-> imageId, packId |-> id,
                                    data |-> data, tags |-> {}])]
                 ELSE packs[i]],
             "pack:image-added")

onDeleteImage(pid, imgid) ==
    SetPacks([i \in 1..Len(packs) |->
                 IF packs[i].id = pid
                 THEN [packs[i] EXCEPT !.images =
                         SelectSeq(@, LAMBDA img : img.id # imgid)]
                 ELSE packs[i]],
             "pack:image-deleted")

\* prev.includes(id) ? prev.filter(pid => pid !== id) : [...prev, id]
Toggled(prev, id) ==
    IF \E i \in 1..Len(prev) : prev[i] = id
    THEN SelectSeq(prev, LAMBDA pid : pid # id)
    ELSE Append(prev, id)

\* togglePackSelection, by the checkbox of a pack of the catalog in the
\* Editor tab, and the effect that follows a new selection.
togglePackSelection(id) ==
    /\ activeTab = "Editor"
    /\ \E i \in 1..Len(packs) : packs[i].id = id
    /\ mounted
    /\ changes < MaxChanges
    /\ changes' = changes + 1
    /\ selectedPackIds' = Toggled(selectedPackIds, id)
    /\ retrievedRefs' = RetrievedRefsEffect(originalImage, packs,
                                            selectedPackIds', settings,
                                            retrievedRefs)
    /\ lastEvent' = "pack:toggled"
    /\ UNCHANGED <<activeTab, originalImage, correctedImage, isProcessing,
                   errorMsg, viewMode, history, settings, loading, inflight,
                   now, appended, packs, boot, storageThrows>>
    /\ PersistenceEffect

\* The ids of the packs of the catalog.
CatalogPackIds == {packs[i].id : i \in 1..Len(packs)}
LibraryEvents ==
    \/ \E id \in NewPackIds, n \in PackNames : onAddPack(n, n, id)
    \/ \E id \in CatalogPackIds, n \in PackNames : onUpdatePack(id, n, n)
    \/ \E id \in CatalogPackIds : onDeletePack(id)
    \/ \E id \in CatalogPackIds, data \in ReferenceUploads,
          imageId \in NewImageIds : onUploadToPack(id, data, imageId)
    \/ \E pid \in CatalogPackIds, imgid \in NewImageIds \cup {"i1"} :
          onDeleteImage(pid, imgid)
    \/ \E id \in CatalogPackIds : togglePackSelection(id)

(***************************************************************************)
(* Specifications.                                                         *)
(***************************************************************************)
\* The events other than the trigger and the promote button, with the files
\* the user picks and the replies correctArt gives drawn from the given sets.
Others(uploads, results, raws, errors) ==
    \/ \E file \in uploads : handleFileUpload(file)
    \/ \E base64 \in uploads : ImgOnload(base64)
    \/ \E k \in 1..MaxPending, r \in results, raw \in raws :
          CorrectArtResolves(k, r, raw)
    \/ \E k \in 1..MaxPending, e \in errors : ProviderRejects(k, e)
    \/ \E mode \in ViewModes : ViewButtonClick(mode)
    \/ \E confirmed \in BOOLEAN : clearHistory(confirmed)
    \/ \E i \in 1..HistoryCap : ReplaySession(i)
    \/ \E tab \in Tabs : SetActiveTab(tab)

Next ==
    \/ RunClick(MaxRuns)
    \/ PromoteClick
    \/ Others(Uploads, Results, RawMetrics, ProviderErrors)

Spec == Init /\ [][Next]_vars

HandlerNext ==
    \/ handleRunCorrection(MaxRuns)
    \/ handlePromoteToSource
    \/ Others(Uploads, Results, RawMetrics, ProviderErrors)

HandlerSpec == Init /\ [][HandlerNext]_vars

\* One sketch, which correctArt returns as it is, one metrics record and a
\* run budget past the cap of the history.
OneSketch == {"sketchA"}
OneMetrics == {CHOOSE raw \in RawMetrics : raw.diff_outside_mask = 2}

HistoryNext ==
    \/ RunClick(MaxAppends)
    \/ PromoteClick
    \/ Others(OneSketch, OneSketch, OneMetrics, ProviderErrors)

HistorySpec == Init /\ [][HistoryNext]_vars

\* Every event of the application, with one sketch and one reply of the
\* provider.
FullNext ==
    \/ RunClick(MaxFullRuns)
    \/ PromoteClick
    \/ Others(OneSketch, Results, OneMetrics, ProviderErrors)
    \/ SettingsEdits
    \/ LibraryEvents

FullSpec == Init /\ [][FullNext]_vars

\* A startup with the seed packs or with a stored catalog and selection, then
\* uploads of sketches and changes to the catalog, the selection and the
\* angle tag.
LibraryInit ==
    \E savedPacks \in {p \in StoredPacks : p.read \in {"missing", "parsed"}},
       savedSelection \in
          {p \in StoredSelections : p.read \in {"missing", "parsed"}} :
       Boot(savedPacks, savedSelection,
            [read |-> "missing", value |-> DefaultSettings], FALSE)

LibraryNext ==
    \/ \E file \in Uploads : handleFileUpload(file)
    \/ \E base64 \in Uploads : ImgOnload(base64)
    \/ \E tab \in Tabs : SetActiveTab(tab)
    \/ \E v \in AngleInputs : SetAngleTag(v)
    \/ LibraryEvents

LibrarySpec == LibraryInit /\ [][LibraryNext]_vars

\* A startup with anything localStorage can give for the three keys, then an
\* upload and a correction, with raw metrics around the tolerance.
StartupInit ==
    \E savedPacks \in StoredPacks, savedSelection \in StoredSelections,
       savedSettings \in AnyStoredSettings :
       Boot(savedPacks, savedSelection, savedSettings, FALSE)

StartupNext ==
    \/ \E file \in OneSketch : handleFileUpload(file)
    \/ \E base64 \in OneSketch : ImgOnload(base64)
    \/ RunClick(MaxFullRuns)
    \/ \E k \in 1..MaxPending, r \in Results,
          raw \in RawMetrics \cup RawMetricsAtTolerance :
          CorrectArtResolves(k, r, raw)
    \/ \E k \in 1..MaxPending, e \in ProviderErrors : ProviderRejects(k, e)

StartupSpec == StartupInit /\ [][StartupNext]_vars

\* The events that change the source image and the result image.  The
\* history is never emptied, so that appended holds every correction that
\* has completed.
DisplayNext ==
    \/ RunClick(MaxRuns)
    \/ PromoteClick
    \/ \E file \in Uploads : handleFileUpload(file)
    \/ \E base64 \in Uploads : ImgOnload(base64)
    \/ \E k \in 1..MaxPending, r \in Results, raw \in OneMetrics :
          CorrectArtResolves(k, r, raw)
    \/ \E k \in 1..MaxPending, e \in ProviderErrors : ProviderRejects(k, e)
    \/ \E i \in 1..HistoryCap : ReplaySession(i)

DisplaySpec == Init /\ [][DisplayNext]_vars

\* localStorage reaches its quota, or access to it is withdrawn: from then
\* on setItem throws.
StorageFills ==
    /\ mounted
    /\ ~storageThrows
    /\ storageThrows' = TRUE
    /\ lastEvent' = "storage:full"
    /\ UNCHANGED <<activeTab, originalImage, correctedImage, isProcessing,
                   errorMsg, viewMode, history, settings, loading, inflight,
                   now, appended, catalogState, budgets, stored, mounted,
                   retrievedRefs>>

\* The events that commit a new catalog, new settings or a new selection,
\* with a storage that can start to throw; a component that is unmounted
\* takes no event.
PersistNext ==
    \/ mounted /\ \E file \in OneSketch : handleFileUpload(file)
    \/ mounted /\ \E base64 \in OneSketch : ImgOnload(base64)
    \/ mounted /\ \E tab \in Tabs : SetActiveTab(tab)
    \/ SettingsEdits
    \/ LibraryEvents
    \/ StorageFills

PersistSpec == Init /\ [][PersistNext]_vars

(***************************************************************************)
(* Properties.                                                             *)
(***************************************************************************)
\* The state of the component: everything but the record of the last event.
appState == <<activeTab, originalImage, correctedImage, isProcessing,
              errorMsg, viewMode, history, settings, loading, inflight, now,
              packs, selectedPackIds, retrievedRefs, stored, mounted,
              appended>>

\* C1: the history holds at most 20 sessions, newest first, and they are
\* exactly the most recent of the sessions appended since the history was
\* last emptied: appending to a full history evicts the oldest one only.
C1_HistoryNewestFirstCapped ==
    /\ Len(history) = IF Len(appended) < 20 THEN Len(appended) ELSE 20
    /\ \A i \in 1..Len(history) : history[i] = appended[Len(appended) + 1 - i]
    /\ \A i \in 1..(Len(history) - 1) : history[i].id > history[i + 1].id

\* A full history from which the oldest sessions have been evicted.
C1_Witness ==
    /\ Len(appended) > 20
    /\ Len(history) = 20
    /\ history[1] = appended[Len(appended)]
    /\ history[20].id > appended[1].id

\* C2: the view mode is After or Overlay only if a result image exists.
C2_ViewNeedsResult ==
    viewMode \in {"After", "Overlay"} => correctedImage # Null

\* C3: at most one call of the provider is outstanding, and one is
\* outstanding only while the in-flight flag is set.
C3_OneAttemptAtATime ==
    /\ Len(inflight) <= 1
    /\ Len(inflight) = 1 => isProcessing

\* A call is outstanding while the user goes on: an upload has completed.
C3_Witness ==
    /\ Len(inflight) = 1
    /\ isProcessing
    /\ lastEvent = "upload:loaded"

\* C4: a step in which the provider replies, with a result or with a
\* failure, ends with the in-flight flag cleared and the trigger not
\* disabled.
C4_ReplyEndsAttempt ==
    [][Len(inflight') < Len(inflight)
          => ~isProcessing' /\ ~(isProcessing' \/ originalImage' = Null)]_vars

\* The provider has failed and the flag is cleared.
C4_Witness ==
    /\ lastEvent = "run:rejected"
    /\ errorMsg \in {ProviderMsg, InterruptedMsg}
    /\ ~isProcessing
    /\ inflight = <<>>

\* C5: no call of the provider is ever outstanding for an absent source
\* image, and handleRunCorrection run with no source image sets the "no
\* image" message and leaves the in-flight flag, the calls outstanding, the
\* history, the result image and the view mode as they were.
C5_NoImageNeverReachesProvider ==
    [][/\ \A k \in 1..Len(inflight') : inflight'[k].originalImage # Null
       /\ (originalImage = Null /\ handleRunCorrection(MaxRuns))
             => /\ errorMsg' = NoImageMsg
                /\ UNCHANGED <<isProcessing, inflight, history,
                               correctedImage, viewMode>>]_vars

\* The handler has run with no source image.
C5_Witness ==
    /\ lastEvent = "run:noimage"
    /\ originalImage = Null
    /\ errorMsg = NoImageMsg
    /\ ~isProcessing
    /\ inflight = <<>>

\* C6: a completed upload leaves the view mode Before, no result image and
\* the uploaded image as the source.
C6_UploadResets ==
    [][\A base64 \in Uploads :
          ImgOnload(base64)
             => /\ viewMode' = "Before"
                /\ correctedImage' = Null
                /\ originalImage' = base64]_vars

\* C7: handlePromoteToSource with a result makes it the source, clears the
\* result and sets the view mode to Before; with no result it changes
\* nothing.
C7_Promote ==
    [][handlePromoteToSource
          => IF correctedImage # Null
             THEN /\ originalImage' = correctedImage
                  /\ correctedImage' = Null
                  /\ viewMode' = "Before"
             ELSE UNCHANGED appState]_vars

\* A result has been promoted.
C7_Witness ==
    /\ lastEvent = "promote:done"
    /\ originalImage \in Results
    /\ correctedImage = Null
    /\ viewMode = "Before"

\* C8: a click on After or Overlay with no result image leaves the view mode
\* Before.
C8_ViewRequestRejected ==
    [][\A mode \in {"After", "Overlay"} :
          (correctedImage = Null /\ ViewButtonClick(mode))
             => viewMode' = "Before"]_vars

\* C9: the view mode of the initial state is Before.
C9_InitialViewBefore ==
    lastEvent = "init" => viewMode = "Before"

\* C10: when the provider resolves, a new session with the source image the
\* call was issued with, the returned image and the returned metrics becomes
\* history[0], the returned image becomes the result and the view mode After.
C10_SuccessRecordsSession ==
    [][\A k \in 1..MaxPending, r \in Results, m \in ReturnedMetrics :
          ProviderResolves(k, r, m)
             => /\ Len(history') >= 1
                /\ history'[1].originalImage = inflight[k].originalImage
                /\ history'[1].resultImage = r
                /\ history'[1].metrics = m
                /\ \A i \in 1..Len(history) : history[i].id # history'[1].id
                /\ correctedImage' = r
                /\ viewMode' = "After"]_vars

\* The provider has resolved for a source image that an upload has since
\* replaced.
C10_Witness ==
    /\ lastEvent = "run:resolved"
    /\ Len(history) >= 1
    /\ history[1].originalImage # originalImage
    /\ originalImage \in Uploads
    /\ correctedImage = history[1].resultImage
    /\ viewMode = "After"

\* C11: the history changes only when a reply of the provider puts a new
\* session in front of it, the sessions past the cap of 20 falling off its
\* end, or when a clear is confirmed and empties it; every other step leaves
\* the list as it was, so that no session in it is ever changed.
C11_HistoryFrame ==
    [][\/ history' = history
       \/ /\ lastEvent' = "run:resolved"
          /\ Len(inflight') < Len(inflight)
          /\ Len(history') >= 1
          /\ Tail(history') = Slice0(history, HistoryCap - 1)
       \/ /\ clearHistory(TRUE)
          /\ history' = <<>>]_vars

\* A pack has been deleted while the history held a session.
C11_Witness ==
    /\ lastEvent = "pack:deleted"
    /\ Len(history) = 1
    /\ history[1].resultImage \in Results

\* C12: the settings of a call of the provider are the settings at the time
\* it is issued, the session made from its reply records those, and no
\* later step changes the settings recorded in a session of the history.
C12_SettingsSnapshot ==
    [][/\ Len(inflight') > Len(inflight)
          => inflight'[Len(inflight')].settings = settings
       /\ history' # history /\ Len(inflight') < Len(inflight)
          => \E k \in 1..Len(inflight) :
                /\ inflight' = RemoveAt(inflight, k)
                /\ history'[1].settings = inflight[k].settings
       /\ \A i \in 1..Len(history), j \in 1..Len(history') :
             history[i].id = history'[j].id
                => history'[j].settings = history[i].settings]_vars

\* A session records settings that an edit has since replaced.
C12_Witness ==
    /\ lastEvent = "edit"
    /\ Len(history) = 1
    /\ history[1].settings # settings

\* C13: every image of the cached ranked list is an image of a pack that is
\* in the catalog and enabled, and with a source image and no pack that is
\* both in the catalog and enabled the list is empty.
C13_RefsOfEnabledPacks ==
    /\ \A r \in 1..Len(retrievedRefs) :
          \E p \in 1..Len(packs) :
             /\ packs[p].id = retrievedRefs[r].packId
             /\ \E s \in 1..Len(selectedPackIds) :
                   selectedPackIds[s] = packs[p].id
             /\ \E i \in 1..Len(packs[p].images) :
                   packs[p].images[i].id = retrievedRefs[r].id
    /\ (originalImage # Null /\ ActivePacks(packs, selectedPackIds) = <<>>)
          => retrievedRefs = <<>>

C15_FidelityFlag ==
    \A i \in 1..Len(history) :
       history[i].metrics.absolute_line_fidelity
          <=> /\ "absoluteLineFidelity" \in DOMAIN history[i].settings
              /\ history[i].settings.absoluteLineFidelity
              /\ history[i].metrics.diff_outside_mask <= 4

\* A session that requested line fidelity and got it with diff_outside_mask
\* on the tolerance.
C15_Witness ==
    /\ Len(history) = 1
    /\ "absoluteLineFidelity" \in DOMAIN history[1].settings
    /\ history[1].settings.absoluteLineFidelity
    /\ history[1].metrics.diff_outside_mask = 4
    /\ history[1].metrics.absolute_line_fidelity

\* C16: the settings of every call of the provider and of every session of
\* the history have strength in 1..100, linePreservation in 0..100, and a
\* mode, an angle tag and a scope that are defined values.
C16_SettingsWellFormed ==
    LET WellFormed(stg) ==
           /\ "strength" \in DOMAIN stg /\ stg.strength \in 1..100
           /\ "linePreservation" \in DOMAIN stg
           /\ stg.linePreservation \in 0..100
           /\ Field(stg, "mode") \in CorrectionModes
           /\ Field(stg, "angleTag") \in AngleTags
           /\ Field(stg, "scope") \in AutoCorrectionScopes
    IN  /\ \A k \in 1..Len(inflight) : WellFormed(inflight[k].settings)
        /\ \A i \in 1..Len(history) : WellFormed(history[i].settings)

\* C17: clearHistory empties the history when the confirmation is accepted
\* and leaves it as it was when it is declined, it leaves the source image,
\* the result image and the view mode as they were in both cases, and a
\* history that held sessions becomes empty only by a confirmed clear.
C17_ClearNeedsConfirmation ==
    [][/\ \A confirmed \in BOOLEAN :
             clearHistory(confirmed)
                => /\ history' = IF confirmed THEN <<>> ELSE history
                   /\ UNCHANGED <<originalImage, correctedImage, viewMode>>
       /\ (history # <<>> /\ history' = <<>>) => clearHistory(TRUE)]_vars

\* The history has been cleared while a result is shown.
C17_Witness ==
    /\ lastEvent = "clear:confirmed"
    /\ history = <<>>
    /\ correctedImage \in Results
    /\ viewMode = "After"

\* C18: a click on the trigger puts exactly one call of the provider in
\* flight and no other step puts any; a rejection takes that call out of
\* flight without issuing another, sets the error message to the message of
\* a CorrectionFailedError or else to the "interrupted" message, and leaves
\* the history, the result image, the source image and the view mode as they
\* were.
C18_FailureOnlyReports ==
    [][/\ Len(inflight') > Len(inflight)
          => /\ RunClick(MaxRuns)
             /\ Len(inflight') = Len(inflight) + 1
       /\ \A k \in 1..MaxPending, e \in ProviderErrors :
             ProviderRejects(k, e)
                => /\ Len(inflight') = Len(inflight) - 1
                   /\ errorMsg' = IF e.kind = "CorrectionFailedError"
                                  THEN e.message
                                  ELSE InterruptedMsg
                   /\ UNCHANGED <<history, correctedImage, originalImage,
                                  viewMode>>]_vars

\* A call has failed with an error that is no CorrectionFailedError, after
\* an earlier one had succeeded: the result and the session are still there.
C18_Witness ==
    /\ lastEvent = "run:rejected"
    /\ errorMsg = InterruptedMsg
    /\ inflight = <<>>
    /\ Len(history) = 1
    /\ correctedImage = history[1].resultImage

\* C19: a click on the i-th session of the history makes its originalImage
\* the source image and its resultImage the result image, sets the view mode
\* to After, and leaves the history and the settings as they were.
C19_Replay ==
    [][\A i \in 1..HistoryCap :
          ReplaySession(i)
             => /\ originalImage' = history[i].originalImage
                /\ correctedImage' = history[i].resultImage
                /\ viewMode' = "After"
                /\ UNCHANGED <<history, settings>>]_vars

\* The older of two sessions, made from another sketch than the newer one,
\* has been replayed.
C19_Witness ==
    /\ lastEvent = "replay"
    /\ Len(history) = 2
    /\ originalImage = history[2].originalImage
    /\ originalImage # history[1].originalImage
    /\ correctedImage = history[2].resultImage
    /\ viewMode = "After"

\* C20: the settings of the initial state have all six fields.
C20_LoadedSettingsComplete ==
    lastEvent = "init"
       => DOMAIN settings = {"strength", "linePreservation", "mode",
                             "angleTag", "scope", "absoluteLineFidelity"}

\* C21: when the last write to localStorage has failed, so that it does not
\* hold the catalog, the settings and the selection of the component, the
\* component is still mounted: it keeps its state and takes events.
C21_FailedWriteKeepsState ==
    stored # Written(packs, settings, selectedPackIds) => mounted

\* C22: whenever there is a result image, a correction has completed whose
\* input was the current source image and whose output is the current result
\* image.
C22_DisplayedPairCoherent ==
    correctedImage # Null
       => \E i \in 1..Len(appended) :
             /\ appended[i].originalImage = originalImage
             /\ appended[i].resultImage = correctedImage

\* C23: every id of the selection is the id of a pack of the catalog, and no
\* id is in the selection twice.
C23_SelectionOfCatalog ==
    /\ \A s \in 1..Len(selectedPackIds) :
          \E p \in 1..Len(packs) : packs[p].id = selectedPackIds[s]
    /\ \A s, t \in 1..Len(selectedPackIds) :
          selectedPackIds[s] = selectedPackIds[t] => s = t

====
